---------------------------- MODULE Spec2Model ----------------------------
(***************************************************************************)
(* A model of the ETH/USDT strategy loop of src/EthStrategy.py: the        *)
(* persisted StateStore, the venue (balances and resting orders) and one   *)
(* action per on_tick() call.                                              *)
(*                                                                         *)
(* Numbers.  The program computes with floats; the model computes with     *)
(* exact fixed-point integers and rounds where the program rounds:         *)
(*   prices, ATR            tenths of a quote unit (one price tick)        *)
(*   price levels of orders thousandths of a tick (before rounding)        *)
(*   distances in state     thousandths of a tick (trail_dist_atr)         *)
(*   stake quantities       millionths of a base unit (round(.., 6))       *)
(*   base balance           hundredths of a base unit                      *)
(*   quote balance, equity  thousandths of a quote unit                    *)
(*   Config fractions       thousandths (0.006 is 6, 0.30 is 300)          *)
(***************************************************************************)
EXTENDS Integers, Sequences, FiniteSets, TLC

\* state: the StateStore; bal, open_orders: the venue's balances and book;
\* mkt: the snapshot the last tick read; tr: what the last tick did;
\* ticks: the number of on_tick() calls so far
VARIABLES state, bal, open_orders, mkt, tr, ticks

vars == <<state, bal, open_orders, mkt, tr, ticks>>

(***************************************************************************)
(* Bounds of the model.                                                    *)
(***************************************************************************)
MaxTicks == 4

(***************************************************************************)
(* Config (src/EthStrategy.py:29-59), fractions in thousandths.            *)
(***************************************************************************)
exposure_cap_notional_pct == 300
target_alloc_pct == 500
target_band == 80
base_risk_pct == 6
max_adds == 4
add_size_decay == 800
add_spacing_atr == 700
grid_step_min_pct == 7
trend_tp_floor_pct == 11
range_tp_floor_pct == 8
trail_arm_atr == 1000
trail_dist_trend_atr == 800
trail_dist_range_atr == 1100
no_rebuy_buffer_atr == 400
spread_max_bps == 15

\* Optional[...] = None
Null == -1

\* Venue metadata returned by load_exchange_meta for the modelled market.
price_precision == 1
qty_precision == 2
\* minimum order cost, in quote units
min_notional == 1

(***************************************************************************)
(* Arithmetic helpers.                                                     *)
(***************************************************************************)
Max(a, b) == IF a >= b THEN a ELSE b

Pow10(n) == IF n = 0 THEN 1 ELSE IF n = 1 THEN 10 ELSE IF n = 2 THEN 100
            ELSE IF n = 3 THEN 1000 ELSE IF n = 4 THEN 10000
            ELSE IF n = 5 THEN 100000 ELSE 1000000

\* Python round(): nearest, ties to even; n >= 0, d > 0.
RoundDiv(n, d) ==
    LET q == n \div d
        r == n % d
    IN  IF 2 * r < d THEN q
        ELSE IF 2 * r > d THEN q + 1
        ELSE IF q % 2 = 0 THEN q ELSE q + 1

\* round(a * b / c) without forming a * b for a large a.
MulDivRound(a, b, c) == (a \div c) * b + RoundDiv((a % c) * b, c)

\* round(q, digits) of a quantity held in millionths, result in millionths.
RoundQty(q, digits) == RoundDiv(q, Pow10(6 - digits)) * Pow10(6 - digits)

\* round(p, digits) of a price held in thousandths of a tick (1e-4 quote units).
RoundPrice(p, digits) == RoundDiv(p, Pow10(4 - digits)) * Pow10(4 - digits)


\* Python truthiness of "x or d" for an Optional[float]: None and 0 are falsy.
Or(x, d) == IF x = Null \/ x = 0 THEN d ELSE x

(***************************************************************************)
(* Computations (src/EthStrategy.py:263-299).                              *)
(***************************************************************************)
\* max(0.8 * atr14, 0.012 * price), in thousandths of a tick
unit_risk(atr14, price) == Max(800 * atr14, 12 * price)

\* round(base_risk_pct * equity / unit_risk, 6), in millionths; 0 if unit_risk = 0
base_stake(equity, u_risk) ==
    IF u_risk = 0 THEN 0 ELSE MulDivRound(equity, base_risk_pct * 10000, u_risk)

\* exposure_cap_notional_pct * equity, in (millionths of base) x ticks
exposure_cap_notional(equity) == exposure_cap_notional_pct * equity * 10

\* px * (eth_free + eth_locked) + usdt_free + usdt_locked
Equity(b, price) == price * b.eth + b.usdt

\* allocation_pct(balances, price) compared with a fraction given in thousandths
AllocAbove(b, price, frac) ==
    Equity(b, price) # 0 /\ 1000 * (b.eth * price) > frac * Equity(b, price)

AllocBelow(b, price, frac) ==
    IF Equity(b, price) = 0 THEN 0 < frac
    ELSE 1000 * (b.eth * price) < frac * Equity(b, price)

\* target_alloc_pct - target_band <= alloc <= target_alloc_pct + target_band
AllocInBand(b, price) ==
    /\ ~AllocBelow(b, price, target_alloc_pct - target_band)
    /\ ~AllocAbove(b, price, target_alloc_pct + target_band)

(***************************************************************************)
(* RiskSizer.compute_stakes (src/EthStrategy.py:392-411).                  *)
(***************************************************************************)
DecayPow(num, k) == IF k = 0 THEN 1 ELSE IF k = 1 THEN num ELSE IF k = 2 THEN num * num
                    ELSE IF k = 3 THEN num * num * num ELSE num * num * num * num

\* the sizes before clipping: base_qty, then max_adds decayed sizes, each rounded
DecayedStakes(base_qty) ==
    [k \in 1..(max_adds + 1) |->
        IF k = 1 THEN base_qty
        ELSE RoundDiv(base_qty * DecayPow(add_size_decay \div 200, k - 1),
                      DecayPow(1000 \div 200, k - 1))]

RECURSIVE SumNotional(_, _, _)
SumNotional(stakes, n, price) ==
    IF n = 0 THEN 0 ELSE SumNotional(stakes, n - 1, price) + stakes[n] * price

\* the loop writing 0 for a size that breaches the cap instead of breaking
ClipStakes_zeroing(stakes, cap, price) ==
    [k \in 1..Len(stakes) |->
        IF \A m \in 1..k : SumNotional(stakes, m, price) <= cap THEN stakes[k] ELSE 0]

\* the loop with break: the longest prefix whose notional stays within the cap
ClipStakes(stakes, cap, price) ==
    LET fits == {n \in 0..Len(stakes) :
                    \A m \in 1..n : SumNotional(stakes, m, price) <= cap}
        len  == CHOOSE n \in fits : \A m \in fits : m <= n
    IN  SubSeq(stakes, 1, len)

compute_stakes(equity, u_risk, price) ==
    ClipStakes(DecayedStakes(base_stake(equity, u_risk)),
               exposure_cap_notional(equity), price)

(***************************************************************************)
(* EntryExit (src/EthStrategy.py:357-384).                                 *)
(***************************************************************************)
\* grid_step = max(0.75 * atr14, grid_step_min_pct * vwap), thousandths of a tick
grid_step(atr14, v) == Max(750 * atr14, grid_step_min_pct * v)

\* (tp_dist, trail_arm, trail_dist, rebuy_buffer), thousandths of a tick
exit_rules(regime_value, atr14, entry_price) ==
    IF regime_value = "TREND"
    THEN [tp_dist      |-> Max(1300 * atr14, trend_tp_floor_pct * entry_price),
          trail_arm    |-> trail_arm_atr * atr14,
          trail_dist   |-> trail_dist_trend_atr * atr14,
          rebuy_buffer |-> no_rebuy_buffer_atr * atr14]
    ELSE [tp_dist      |-> Max(1100 * atr14, range_tp_floor_pct * entry_price),
          trail_arm    |-> trail_arm_atr * atr14,
          trail_dist   |-> trail_dist_range_atr * atr14,
          rebuy_buffer |-> no_rebuy_buffer_atr * atr14]

(***************************************************************************)
(* Venue calls.  Every exchange.create_order / exchange.cancel_order call  *)
(* a tick makes is logged in order, with the venue's answer (ok = the call *)
(* returned, not ok = it raised).  qty is in millionths, price in          *)
(* thousandths of a tick (Null for a market order), ref is the position of *)
(* a cancelled order in the open-order list the tick fetched.              *)
(***************************************************************************)
Call(op, by, side, typ, qty, price, post_only, ref, ok) ==
    [op |-> op, by |-> by, side |-> side, typ |-> typ, qty |-> qty,
     price |-> price, post_only |-> post_only, ref |-> ref, ok |-> ok]

\* a base balance (hundredths) as a quantity in millionths
ToQty(pos) == pos * Pow10(6 - qty_precision)

(***************************************************************************)
(* Strategy.monitor_position (src/EthStrategy.py:539-605).  venue.sell and *)
(* venue.add say whether the venue accepts the market sell and the add.    *)
(***************************************************************************)
\* lines 562-564 and 582-584
Flat(s) == [s EXCEPT !.entry_price = Null, !.add_count = 0, !.trail_active = FALSE]

\* lines 556-565: the take-profit branch, entered when its condition holds
TakeProfitHit(s, x, price) == 1000 * price >= 1000 * s.entry_price + x.tp_dist

\* take_profit without line 560: the exit price is not recorded
take_profit_unrecorded(s, price, pos_qty, ok) ==
    [state |-> Flat(s),
     calls |-> << Call("create", "tp", "sell", "market",
                       RoundQty(ToQty(pos_qty), qty_precision), Null, FALSE, 0, ok) >>]

take_profit(s, price, pos_qty, ok) ==
    [state |-> Flat(IF ok THEN [s EXCEPT !.last_exit_price = price] ELSE s),
     calls |-> << Call("create", "tp", "sell", "market",
                       RoundQty(ToQty(pos_qty), qty_precision), Null, FALSE, 0, ok) >>]

\* trailing_stop with line 571 left out: arming does not record the distance
trailing_stop_without_dist(s, x, price, pos_qty, ok) ==
    IF ~s.trail_active /\ 1000 * (price - s.entry_price) >= x.trail_arm
    THEN [state  |-> [s EXCEPT !.trail_active = TRUE, !.trail_anchor_price = price],
          calls  |-> << >>,
          exited |-> FALSE]
    ELSE IF s.trail_active
    THEN LET s1   == IF price > Or(s.trail_anchor_price, 0)
                     THEN [s EXCEPT !.trail_anchor_price = price] ELSE s
             stop == 1000 * Or(s1.trail_anchor_price, 0)
                        - Or(s1.trail_dist_atr, x.trail_dist)
         IN  IF 1000 * price <= stop
             THEN [state  |-> Flat(IF ok THEN [s1 EXCEPT !.last_exit_price = price]
                                         ELSE s1),
                   calls  |-> << Call("create", "trail", "sell", "market",
                                      RoundQty(ToQty(pos_qty), qty_precision),
                                      Null, FALSE, 0, ok) >>,
                   exited |-> TRUE]
             ELSE [state |-> s1, calls |-> << >>, exited |-> FALSE]
    ELSE [state |-> s, calls |-> << >>, exited |-> FALSE]

\* lines 568-585: arm, or ratchet and trigger
\* trailing_stop without the ratchet of lines 573-574: the anchor stays
\* where the trail was armed
trailing_stop_fixed_anchor(s, x, price, pos_qty, ok) ==
    IF ~s.trail_active /\ 1000 * (price - s.entry_price) >= x.trail_arm
    THEN [state  |-> [s EXCEPT !.trail_active = TRUE,
                               !.trail_anchor_price = price,
                               !.trail_dist_atr = x.trail_dist],
          calls  |-> << >>,
          exited |-> FALSE]
    ELSE IF s.trail_active
    THEN IF 1000 * price <= 1000 * Or(s.trail_anchor_price, 0)
                              - Or(s.trail_dist_atr, x.trail_dist)
         THEN [state  |-> Flat(IF ok THEN [s EXCEPT !.last_exit_price = price] ELSE s),
               calls  |-> << Call("create", "trail", "sell", "market",
                                  RoundQty(ToQty(pos_qty), qty_precision),
                                  Null, FALSE, 0, ok) >>,
               exited |-> TRUE]
         ELSE [state |-> s, calls |-> << >>, exited |-> FALSE]
    ELSE [state |-> s, calls |-> << >>, exited |-> FALSE]

trailing_stop(s, x, price, pos_qty, ok) ==
    IF ~s.trail_active /\ 1000 * (price - s.entry_price) >= x.trail_arm
    THEN [state  |-> [s EXCEPT !.trail_active = TRUE,
                               !.trail_anchor_price = price,
                               !.trail_dist_atr = x.trail_dist],
          calls  |-> << >>,
          exited |-> FALSE]
    ELSE IF s.trail_active
    THEN LET s1   == IF price > Or(s.trail_anchor_price, 0)
                     THEN [s EXCEPT !.trail_anchor_price = price] ELSE s
             stop == 1000 * Or(s1.trail_anchor_price, 0)
                        - Or(s1.trail_dist_atr, x.trail_dist)
         IN  IF 1000 * price <= stop
             THEN [state  |-> Flat(IF ok THEN [s1 EXCEPT !.last_exit_price = price]
                                         ELSE s1),
                   calls  |-> << Call("create", "trail", "sell", "market",
                                      RoundQty(ToQty(pos_qty), qty_precision),
                                      Null, FALSE, 0, ok) >>,
                   exited |-> TRUE]
             ELSE [state |-> s1, calls |-> << >>, exited |-> FALSE]
    ELSE [state |-> s, calls |-> << >>, exited |-> FALSE]

\* lines 588-590: the guard of the add step
AddDue(s, atr14, price, stakes) ==
    /\ s.add_count < Len(stakes) - 1
    /\ LET last_price == Or(s.last_add_price, s.entry_price)
       IN  /\ last_price # Null
           /\ last_price # 0
           /\ 1000 * (last_price - price) >= add_spacing_atr * atr14

\* adds with lines 602-603 moved in front of the create_order call
adds_recorded_first(s, atr14, price, stakes, up) ==
    IF AddDue(s, atr14, price, stakes)
    THEN LET add_qty == RoundQty(stakes[s.add_count + 2], qty_precision)
             ok      == up /\ add_qty > 0
         IN  [state |-> [s EXCEPT !.add_count = s.add_count + 1,
                                  !.last_add_price = price],
              calls |-> << Call("create", "add", "buy", "limit", add_qty,
                                RoundPrice(1000 * price, price_precision),
                                TRUE, 0, ok) >>]
    ELSE [state |-> s, calls |-> << >>]

\* adds guarded by the configured max_adds instead of the clipped ladder, the
\* size taken from the last stake when the ladder is shorter
adds_up_to_max_adds(s, atr14, price, stakes, up) ==
    IF /\ s.add_count < max_adds
       /\ Or(s.last_add_price, s.entry_price) # Null
       /\ Or(s.last_add_price, s.entry_price) # 0
       /\ 1000 * (Or(s.last_add_price, s.entry_price) - price) >= add_spacing_atr * atr14
    THEN LET add_qty == IF Len(stakes) = 0 THEN 0
                        ELSE IF s.add_count + 2 <= Len(stakes)
                        THEN RoundQty(stakes[s.add_count + 2], qty_precision)
                        ELSE RoundQty(stakes[Len(stakes)], qty_precision)
             ok      == up /\ add_qty > 0
         IN  [state |-> IF ok THEN [s EXCEPT !.add_count = s.add_count + 1,
                                             !.last_add_price = price]
                              ELSE s,
              calls |-> << Call("create", "add", "buy", "limit", add_qty,
                                RoundPrice(1000 * price, price_precision),
                                TRUE, 0, ok) >>]
    ELSE [state |-> s, calls |-> << >>]

\* adds guarded by add_count < len(stakes), one step past the ladder, the size
\* taken from the last stake there
adds_one_past_ladder(s, atr14, price, stakes, up) ==
    IF /\ s.add_count < Len(stakes)
       /\ Or(s.last_add_price, s.entry_price) # Null
       /\ Or(s.last_add_price, s.entry_price) # 0
       /\ 1000 * (Or(s.last_add_price, s.entry_price) - price) >= add_spacing_atr * atr14
    THEN LET add_qty == IF s.add_count + 2 <= Len(stakes)
                        THEN RoundQty(stakes[s.add_count + 2], qty_precision)
                        ELSE RoundQty(stakes[Len(stakes)], qty_precision)
             ok      == up /\ add_qty > 0
         IN  [state |-> IF ok THEN [s EXCEPT !.add_count = s.add_count + 1,
                                             !.last_add_price = price]
                              ELSE s,
              calls |-> << Call("create", "add", "buy", "limit", add_qty,
                                RoundPrice(1000 * price, price_precision),
                                TRUE, 0, ok) >>]
    ELSE [state |-> s, calls |-> << >>]

\* lines 588-605: adds on adverse moves
adds(s, atr14, price, stakes, up) ==
    IF AddDue(s, atr14, price, stakes)
    THEN LET add_qty == RoundQty(stakes[s.add_count + 2], qty_precision)
             ok      == up /\ add_qty > 0      \* the venue refuses an empty order
         IN  [state |-> IF ok THEN [s EXCEPT !.add_count = s.add_count + 1,
                                             !.last_add_price = price]
                              ELSE s,
              calls |-> << Call("create", "add", "buy", "limit", add_qty,
                                RoundPrice(1000 * price, price_precision),
                                TRUE, 0, ok) >>]
    ELSE [state |-> s, calls |-> << >>]

\* lines 549-551: a position held with no entry price on record is adopted
adopt(s, price) ==
    IF s.entry_price = Null
    THEN [s EXCEPT !.entry_price = price, !.last_add_price = price] ELSE s

\* lines 587-605, reached when the trailing-stop step t did not exit
after_trailing(t, atr14, price, stakes, venue) ==
    IF t.exited THEN [state |-> t.state, calls |-> t.calls]
    ELSE [state |-> adds(t.state, atr14, price, stakes, venue.add).state,
          calls |-> t.calls \o adds(t.state, atr14, price, stakes, venue.add).calls]

\* manage with the trailing-stop block (567-585) in front of the take-profit
\* block (555-565)
manage_trailing_first(s, x, atr14, price, stakes, pos_qty, venue) ==
    IF trailing_stop(s, x, price, pos_qty, venue.sell).exited
    THEN [state |-> trailing_stop(s, x, price, pos_qty, venue.sell).state,
          calls |-> trailing_stop(s, x, price, pos_qty, venue.sell).calls]
    ELSE IF TakeProfitHit(s, x, price)
    THEN take_profit(s, price, pos_qty, venue.sell)
    ELSE after_trailing(trailing_stop(s, x, price, pos_qty, venue.sell),
                        atr14, price, stakes, venue)

\* lines 553-605: s is the state after adoption, x its exit_rules
manage(s, x, atr14, price, stakes, pos_qty, venue) ==
    IF TakeProfitHit(s, x, price)
    THEN take_profit(s, price, pos_qty, venue.sell)
    ELSE after_trailing(trailing_stop(s, x, price, pos_qty, venue.sell),
                        atr14, price, stakes, venue)

\* lines 553-605 with the exit distances of line 553
monitor_open(s, reg, atr14, price, stakes, pos_qty, venue) ==
    manage(s, exit_rules(reg, atr14, s.entry_price), atr14, price, stakes, pos_qty, venue)

monitor_position(s, reg, atr14, price, stakes, pos_qty, venue) ==
    IF pos_qty <= 0
    THEN [state |-> [s EXCEPT !.entry_price = Null, !.trail_active = FALSE],
          calls |-> << >>]
    ELSE monitor_open(adopt(s, price), reg, atr14, price, stakes, pos_qty, venue)

(***************************************************************************)
(* InventoryBootstrap.desired_inventory_orders (src/EthStrategy.py:333-349)*)
(* A desired order is [side, typ, price, qty, post_only]: price in         *)
(* thousandths of a tick, Null when the dict has no "price" key; typ is    *)
(* "unset" when the dict has no "type" key.                                *)
(***************************************************************************)
Order(side, typ, price, qty, post_only) ==
    [side |-> side, typ |-> typ, price |-> price, qty |-> qty, post_only |-> post_only]

\* line 342: (alloc - (target + band)) * eth, in millionths
SellQty(b, price, hi) ==
    MulDivRound(1000 * (b.eth * price) - hi * Equity(b, price), b.eth * 10,
                Equity(b, price))

\* lines 346-347: (target - band - alloc) * portfolio / price, in millionths
BuyQty(b, price, lo) ==
    IF price = 0 THEN 0
    ELSE RoundDiv((lo * Equity(b, price) - 1000 * (b.eth * price)) * 10, price)

\* desired_inventory_orders with >= and <= at lines 341 and 344: the band
\* edges count as outside
desired_inventory_orders_from_edge(b, price, atr14, v) ==
    IF ~AllocBelow(b, price, target_alloc_pct + target_band)
    THEN << Order("sell", "unset", 1000 * v + 600 * atr14,
                  SellQty(b, price, target_alloc_pct + target_band), FALSE) >>
    ELSE IF ~AllocAbove(b, price, target_alloc_pct - target_band)
    THEN << Order("buy", "unset", 1000 * v - 600 * atr14,
                  BuyQty(b, price, target_alloc_pct - target_band), FALSE) >>
    ELSE << >>

desired_inventory_orders(b, price, atr14, v) ==
    IF AllocAbove(b, price, target_alloc_pct + target_band)
    THEN << Order("sell", "unset", 1000 * v + 600 * atr14,
                  SellQty(b, price, target_alloc_pct + target_band), FALSE) >>
    ELSE IF AllocBelow(b, price, target_alloc_pct - target_band)
    THEN << Order("buy", "unset", 1000 * v - 600 * atr14,
                  BuyQty(b, price, target_alloc_pct - target_band), FALSE) >>
    ELSE << >>

(***************************************************************************)
(* OrderLifecycle (src/EthStrategy.py:419-478).  An open order of the      *)
(* venue is [side, price, qty, old]: old says its timestamp is more than   *)
(* unfilled_timeout_sec in the past.  venue is the exchange as the tick    *)
(* meets it: cancel/place/sell/add say whether calls of that kind return,  *)
(* usdt is the free quote balance a market buy can spend.                  *)
(***************************************************************************)
\* def key(o), lines 426-428
key(o, precision) ==
    << o.side,
       IF o.price = Null THEN 0 ELSE RoundPrice(o.price, precision),
       RoundQty(o.qty, precision) >>

\* the keys of a list of orders, in order
Keys(list, precision) == [i \in 1..Len(list) |-> key(list[i], precision)]

\* Lines 430-431.  A dict built from a list iterates one position per distinct
\* key, at the key's first position (DictPositions), holding the key's last
\* order (DictValue).
DictPositions(ks) ==
    SelectSeq([i \in 1..Len(ks) |-> i], LAMBDA i : \A j \in 1..(i - 1) : ks[j] # ks[i])

DictValue(ks, i) ==
    CHOOSE j \in 1..Len(ks) : ks[j] = ks[i] /\ \A m \in 1..Len(ks) : ks[m] = ks[i] => m <= j

Range(ks) == {ks[i] : i \in 1..Len(ks)}

\* price x qty >= min_notional, both rounded to `precision` digits
NotionalOk(price, qty, precision, min_not) ==
    (price \div Pow10(4 - precision)) * (qty \div Pow10(6 - precision))
        >= min_not * Pow10(precision) * Pow10(precision)

\* what the venue answers to a create_order of the reconciler
Accepts(venue, typ, side, qty, px) ==
    /\ venue.place
    /\ qty > 0
    /\ (typ = "market" /\ side = "buy") => (qty \div Pow10(6 - qty_precision)) * px <= venue.usdt

\* lines 434-439: dks, oks are the keys of the desired and of the open orders
ReconcileCancels(open, dks, oks, venue) ==
    LET drop == SelectSeq(DictPositions(oks), LAMBDA i : oks[i] \notin Range(dks))
    IN  [n \in 1..Len(drop) |->
            Call("cancel", "reconcile", open[DictValue(oks, drop[n])].side, "limit",
                 open[DictValue(oks, drop[n])].qty, open[DictValue(oks, drop[n])].price,
                 FALSE, DictValue(oks, drop[n]), venue.cancel)]

\* lines 444-446
PlacePrice(o, precision) == IF o.price = Null THEN Null ELSE RoundPrice(o.price, precision)

Sendable(o, precision, min_not) ==
    \/ o.price = Null
    \/ NotionalOk(RoundPrice(o.price, precision), RoundQty(o.qty, precision),
                  precision, min_not)

\* lines 447-452
PlaceCallAs(o, typ, price, qty, venue, px) ==
    Call("create", "reconcile", o.side, typ, qty, price, o.post_only, 0,
         Accepts(venue, typ, o.side, qty, px))

PlaceCall(o, precision, venue, px) ==
    PlaceCallAs(o,
                IF o.typ # "unset" THEN o.typ
                ELSE IF o.price # Null THEN "limit" ELSE "market",
                PlacePrice(o, precision), RoundQty(o.qty, precision), venue, px)

\* lines 442-454
ReconcilePlaces(desired_set, dks, oks, precision, min_not, venue, px) ==
    LET new == SelectSeq(DictPositions(dks),
                         LAMBDA i : /\ dks[i] \notin Range(oks)
                                    /\ Sendable(desired_set[DictValue(dks, i)],
                                                precision, min_not))
    IN  [n \in 1..Len(new) |->
            PlaceCall(desired_set[DictValue(dks, new[n])], precision, venue, px)]

Reconcile(desired_set, open, dks, oks, precision, min_not, venue, px) ==
    ReconcileCancels(open, dks, oks, venue)
        \o ReconcilePlaces(desired_set, dks, oks, precision, min_not, venue, px)

reconcile_orders(desired_set, open, precision, min_not, venue, px) ==
    Reconcile(desired_set, open, Keys(desired_set, precision), Keys(open, precision),
              precision, min_not, venue, px)

\* lines 457-465; gone = the orders this tick has already cancelled
handle_timeouts(open, venue, gone) ==
    LET late == SelectSeq([i \in 1..Len(open) |-> i], LAMBDA i : open[i].old)
    IN  [n \in 1..Len(late) |->
            Call("cancel", "timeout", open[late[n]].side, "limit", open[late[n]].qty,
                 open[late[n]].price, FALSE, late[n],
                 venue.cancel /\ late[n] \notin gone)]

(***************************************************************************)
(* Strategy.on_tick (src/EthStrategy.py:490-537).  m is what the tick      *)
(* reads from the candles and the book: px, atr (ATR14), reg, breakout     *)
(* (the long_breakout signal), vwap, and what the guards read (age,        *)
(* spread; spread is Null when the order book could not be fetched) and   *)
(* c1_empty (no 1h candle: Computations.regime raises IndexError at line   *)
(* 504).  The result is the new StateStore, the venue calls made, and how  *)
(* the tick ended ("stale": data_fresh failed, "wide": spread_ok did,      *)
(* "raised": an exception left on_tick).                                   *)
(***************************************************************************)
\* lines 521-526: the TREND breakout entry
entry(s, px) == [s EXCEPT !.entry_price = px, !.last_add_price = px, !.add_count = 0]

\* lines 518-532: the desired set of a trading tick
desired_orders(m, stakes) ==
    IF m.reg = "TREND" /\ m.breakout
    THEN << Order("buy", "market", Null, IF Len(stakes) > 0 THEN stakes[1] ELSE 0, FALSE) >>
    ELSE IF m.reg = "RANGE"
    THEN << Order("buy", "unset", 1000 * m.vwap - grid_step(m.atr, m.vwap), stakes[1], TRUE),
            Order("sell", "unset", 1000 * m.vwap + grid_step(m.atr, m.vwap), stakes[1], TRUE) >>
    ELSE << >>

OkRefs(calls) == {calls[i].ref : i \in {j \in 1..Len(calls) : calls[j].op = "cancel" /\ calls[j].ok}}

\* lines 509-516
bootstrap_tick(s, b, open, m, venue) ==
    [state   |-> IF AllocInBand(b, m.px)
                 THEN [s EXCEPT !.bootstrap_state = "DONE"] ELSE s,
     calls   |-> reconcile_orders(desired_inventory_orders(b, m.px, m.atr, m.vwap),
                                  open, price_precision, min_notional, venue, m.px),
     outcome |-> "bootstrap"]

\* lines 534-537: rc = the reconciler's calls, mp = monitor_position's result
finish_tick(rc, open, venue, mp) ==
    [state   |-> mp.state,
     calls   |-> rc \o handle_timeouts(open, venue, OkRefs(rc)) \o mp.calls,
     outcome |-> "done"]

\* trade with the try/except of lines 438-441, 451-454 and 462-465 left out:
\* the first venue call of the reconciler that fails ends the tick
trade_aborting_on_venue_error(s, b, open, m, venue, stakes) ==
    IF m.reg = "RANGE" /\ Len(stakes) = 0
    THEN [state |-> s, calls |-> << >>, outcome |-> "raised"]
    ELSE IF \E c \in Range(reconcile_orders(desired_orders(m, stakes), open,
                                              price_precision, min_notional,
                                              venue, m.px)) : ~c.ok
    THEN [state   |-> s,
          calls   |-> reconcile_orders(desired_orders(m, stakes), open,
                                       price_precision, min_notional, venue, m.px),
          outcome |-> "raised"]
    ELSE finish_tick(
            reconcile_orders(desired_orders(m, stakes), open,
                             price_precision, min_notional, venue, m.px),
            open, venue,
            monitor_position(IF m.reg = "TREND" /\ m.breakout THEN entry(s, m.px) ELSE s,
                             m.reg, m.atr, m.px, stakes, b.eth, venue))

\* lines 520-537, with the stakes of line 519
trade(s, b, open, m, venue, stakes) ==
    IF m.reg = "RANGE" /\ Len(stakes) = 0
    THEN \* stakes[0] raises IndexError at line 531: nothing was changed or sent
         [state |-> s, calls |-> << >>, outcome |-> "raised"]
    ELSE finish_tick(
            reconcile_orders(desired_orders(m, stakes), open,
                             price_precision, min_notional, venue, m.px),
            open, venue,
            monitor_position(IF m.reg = "TREND" /\ m.breakout THEN entry(s, m.px) ELSE s,
                             m.reg, m.atr, m.px, stakes, b.eth, venue))

\* lines 518-537
trading_tick(s, b, open, m, venue) ==
    trade(s, b, open, m, venue,
          compute_stakes(Equity(b, m.px), unit_risk(m.atr, m.px), m.px))

\* Guards.data_fresh (lines 317-321): age is how many minutes the latest 5m
\* candle lies behind the server time, Null when there is no 5m candle
data_fresh(age) == age # Null /\ age <= 10

\* Data.load_orderbook_top (lines 127-138): the spread reading of the tick,
\* 0 when fetch_order_book raises (book = Null)
load_orderbook_top(book) == IF book = Null THEN 0 ELSE book

\* Guards.spread_ok (lines 309-310), called at line 501 with spread * 10000
spread_ok(spread_bps) == spread_bps <= spread_max_bps

\* Guards.daily_loss_ok (lines 324-325); no line of the program calls it
daily_loss_ok(s, equity) == 1000 * s.daily_loss_realized <= 12 * equity

\* on_tick that goes back to bootstrapping whenever the allocation is out of band
on_tick_rebootstrapping(s, b, open, m, venue) ==
    IF ~data_fresh(m.age) THEN [state |-> s, calls |-> << >>, outcome |-> "stale"]
    ELSE IF ~spread_ok(load_orderbook_top(m.spread))
    THEN [state |-> s, calls |-> << >>, outcome |-> "wide"]
    ELSE IF m.c1_empty THEN [state |-> s, calls |-> << >>, outcome |-> "raised"]
    ELSE IF s.bootstrap_state # "DONE" \/ ~AllocInBand(b, m.px)
    THEN bootstrap_tick([s EXCEPT !.bootstrap_state = "PENDING"], b, open, m, venue)
    ELSE trading_tick(s, b, open, m, venue)

\* on_tick without the return of line 516: the trading logic follows the
\* bootstrap in the same tick
on_tick_without_bootstrap_return(s, b, open, m, venue) ==
    IF ~data_fresh(m.age) THEN [state |-> s, calls |-> << >>, outcome |-> "stale"]
    ELSE IF ~spread_ok(load_orderbook_top(m.spread))
    THEN [state |-> s, calls |-> << >>, outcome |-> "wide"]
    ELSE IF m.c1_empty THEN [state |-> s, calls |-> << >>, outcome |-> "raised"]
    ELSE IF s.bootstrap_state # "DONE"
    THEN [state   |-> trading_tick(bootstrap_tick(s, b, open, m, venue).state,
                                   b, open, m, venue).state,
          calls   |-> bootstrap_tick(s, b, open, m, venue).calls
                          \o trading_tick(s, b, open, m, venue).calls,
          outcome |-> "bootstrap"]
    ELSE trading_tick(s, b, open, m, venue)

\* on_tick without the guards of lines 499-502
on_tick_without_guards(s, b, open, m, venue) ==
    IF m.c1_empty THEN [state |-> s, calls |-> << >>, outcome |-> "raised"]
    ELSE IF s.bootstrap_state # "DONE" THEN bootstrap_tick(s, b, open, m, venue)
    ELSE trading_tick(s, b, open, m, venue)

on_tick(s, b, open, m, venue) ==
    IF ~data_fresh(m.age) THEN [state |-> s, calls |-> << >>, outcome |-> "stale"]
    ELSE IF ~spread_ok(load_orderbook_top(m.spread))
    THEN [state |-> s, calls |-> << >>, outcome |-> "wide"]
    ELSE IF m.c1_empty THEN [state |-> s, calls |-> << >>, outcome |-> "raised"]
    ELSE IF s.bootstrap_state # "DONE" THEN bootstrap_tick(s, b, open, m, venue)
    ELSE trading_tick(s, b, open, m, venue)

(***************************************************************************)
(* The venue: what the calls of a tick do to the balances and to the book. *)
(* A market order fills at once at the current price; a limit order rests. *)
(***************************************************************************)
Lots(qty) == qty \div Pow10(6 - qty_precision)

RECURSIVE Settle(_, _, _, _)
Settle(b, calls, n, px) ==
    IF n = 0 THEN b
    ELSE LET p == Settle(b, calls, n - 1, px)
             c == calls[n]
         IN  IF c.op = "create" /\ c.ok /\ c.typ = "market"
             THEN IF c.side = "buy"
                  THEN [eth |-> p.eth + Lots(c.qty), usdt |-> p.usdt - Lots(c.qty) * px]
                  ELSE [eth |-> p.eth - Lots(c.qty), usdt |-> p.usdt + Lots(c.qty) * px]
             ELSE p

Book(open, calls) ==
    LET kept   == SelectSeq([i \in 1..Len(open) |-> i], LAMBDA i : i \notin OkRefs(calls))
        placed == SelectSeq(calls, LAMBDA c : c.op = "create" /\ c.ok /\ c.typ # "market")
    IN  [i \in 1..Len(kept) |-> open[kept[i]]]
            \o [i \in 1..Len(placed) |->
                    [side |-> placed[i].side, price |-> placed[i].price,
                     qty |-> placed[i].qty, old |-> FALSE]]

(***************************************************************************)
(* State, inputs and actions.                                              *)
(***************************************************************************)
\* StateStore defaults, lines 74-85
DefaultState ==
    [last_regime |-> Null, last_exit_price |-> Null, last_grid_anchor |-> Null,
     trail_active |-> FALSE, trail_anchor_price |-> Null, trail_dist_atr |-> Null,
     add_count |-> 0, last_add_price |-> Null, bootstrap_state |-> "PENDING",
     daily_loss_realized |-> 0, open_order_intent_hash |-> Null, entry_price |-> Null]

\* Market snapshots the ticks are run on: <<px, atr, reg, breakout>>, prices and
\* ATR in ticks.  ATR 7 spaces a ladder of adds one price level apart and arms a
\* trailing stop one level up; ATR 17 keeps take-profit out of reach while a
\* trailing stop arms or ratchets; ATR 2 leaves compute_stakes with at most one
\* size and brings take-profit within one level.
Vwap == 86

Snapshots ==
    {<<p, 7, "TREND", FALSE>> : p \in {72, 79, 86, 93}}
    \cup {<<86, 17, "TREND", FALSE>>, <<93, 17, "TREND", FALSE>>}
    \cup {<<79, 2, "TREND", FALSE>>}
    \cup {<<100, 7, "TREND", TRUE>>, <<86, 2, "TREND", TRUE>>}
    \cup {<<86, 7, "RANGE", FALSE>>, <<86, 2, "RANGE", FALSE>>}

\* What the guards read, <<age, spread>>: the age of the latest 5m candle in
\* minutes (Null: no candle) and ask - bid in 1e-4 quote units, which is the
\* value of spread * 10000 at line 501.  Fresh has both at their limits.
Fresh == <<10, 15>>
Stale == <<11, 15>>
Wide == <<10, 16>>

Market(x, r) ==
    [px |-> x[1], atr |-> x[2], reg |-> x[3], breakout |-> x[4], vwap |-> Vwap,
     age |-> r[1], spread |-> r[2], c1_empty |-> FALSE]

Markets ==
    {Market(x, Fresh) : x \in Snapshots}
    \cup {Market(<<86, 7, "RANGE", FALSE>>, r) : r \in {Stale, Wide}}

\* which kinds of venue call raise during a tick
Outages == {{}, {"sell", "add"}, {"cancel", "place"}}

Venue(down, b) ==
    [cancel |-> "cancel" \notin down, place |-> "place" \notin down,
     sell |-> "sell" \notin down, add |-> "add" \notin down, usdt |-> b.usdt]

InitBalances == {[eth |-> 150, usdt |-> 13000], [eth |-> 0, usdt |-> 30000]}

\* tr before the first tick and after a fill or a timeout
Idle == [calls |-> << >>, outcome |-> "idle", rep |-> 0, prev |-> "idle",
         pre |-> DefaultState, was |-> [eth |-> 0, usdt |-> 0]]

\* before the first tick nothing has been fetched
NoMarket == Market(<<0, 0, "RANGE", FALSE>>, <<Null, 0>>)

AllOk(calls) == \A i \in 1..Len(calls) : calls[i].ok

Init ==
    /\ state = DefaultState
    /\ bal \in InitBalances
    /\ open_orders = << >>
    /\ mkt = NoMarket
    /\ tr = Idle
    /\ ticks = 0

\* The effect of a tick that read the snapshot m and ended as r.  tr records the
\* tick: its venue calls, how it ended (outcome) and how the tick before it ended
\* (prev), the StateStore (pre) and the balances (was) it started from.  tr.rep = 2
\* says the tick repeats the one before on the same snapshot, with no fill or
\* timeout in between and with every venue call of that tick answered.
Commit(r, m) ==
    /\ state' = r.state
    /\ bal' = Settle(bal, r.calls, Len(r.calls), m.px)
    /\ open_orders' = Book(open_orders, r.calls)
    /\ mkt' = m
    /\ tr' = [calls |-> r.calls, outcome |-> r.outcome,
              rep |-> IF m = mkt /\ tr.rep >= 1 /\ AllOk(tr.calls) THEN 2 ELSE 1,
              prev |-> tr.outcome, pre |-> state, was |-> bal]

\* One call of on_tick() on a snapshot of `markets`, with the venue calls of one
\* of `outages` raising.
Tick(markets, outages, bound) ==
    /\ ticks < bound
    /\ ticks' = ticks + 1
    /\ \E m \in markets, down \in outages :
        Commit(on_tick(state, bal, open_orders, m, Venue(down, bal)), m)

OnTick == Tick(Markets, Outages, MaxTicks)

\* a resting order fills completely at its price
Fill ==
    \E i \in 1..Len(open_orders) :
        LET o    == open_orders[i]
            cost == Lots(o.qty) * (o.price \div 1000)
        IN  /\ IF o.side = "buy" THEN cost <= bal.usdt ELSE Lots(o.qty) <= bal.eth
            /\ bal' = IF o.side = "buy"
                      THEN [eth |-> bal.eth + Lots(o.qty), usdt |-> bal.usdt - cost]
                      ELSE [eth |-> bal.eth - Lots(o.qty), usdt |-> bal.usdt + cost]
            /\ open_orders' = SubSeq(open_orders, 1, i - 1)
                                \o SubSeq(open_orders, i + 1, Len(open_orders))
            /\ tr' = Idle
            /\ UNCHANGED <<state, mkt, ticks>>

\* unfilled_timeout_sec goes by: every resting order is now old
TimePasses ==
    /\ \E i \in 1..Len(open_orders) : ~open_orders[i].old
    /\ open_orders' = [i \in 1..Len(open_orders) |-> [open_orders[i] EXCEPT !.old = TRUE]]
    /\ tr' = Idle
    /\ UNCHANGED <<state, bal, mkt, ticks>>

Next == OnTick \/ Fill \/ TimePasses

Spec == Init /\ [][Next]_vars

(***************************************************************************)
(* What the last tick did, read from tr, mkt and state.                    *)
(***************************************************************************)
\* the last step was a tick that ran the trading logic through line 537
Traded == tr.outcome = "done"

\* the venue calls the last tick made for `by`, answered ok or not
Called(by, ok) == \E i \in 1..Len(tr.calls) : tr.calls[i].by = by /\ tr.calls[i].ok = ok

Attempted(by) == Called(by, TRUE) \/ Called(by, FALSE)

\* the market sells of the last tick (positions in tr.calls)
MarketSells ==
    {i \in 1..Len(tr.calls) : /\ tr.calls[i].op = "create"
                              /\ tr.calls[i].side = "sell"
                              /\ tr.calls[i].typ = "market"}

\* line 519 of the last tick
TickStakes ==
    compute_stakes(Equity(tr.was, mkt.px), unit_risk(mkt.atr, mkt.px), mkt.px)

\* the state of the last tick after its entry step (lines 520-526)
Entered == IF mkt.reg = "TREND" /\ mkt.breakout THEN entry(tr.pre, mkt.px) ELSE tr.pre

\* ... and after the first step of monitor_position (lines 543-551), which the
\* exit and add steps then work on
Adopted == IF tr.was.eth > 0 THEN adopt(Entered, mkt.px) ELSE Entered

(***************************************************************************)
(* C1.  on_tick is idempotent: called a second time on the same snapshot,  *)
(* with nothing changed outside but what the first call itself placed, it  *)
(* makes no venue call.  Stated for two trading ticks in a row (tr.rep = 2:*)
(* same snapshot, every call of the first answered, no fill and no timeout *)
(* in between).                                                            *)
(***************************************************************************)
C1_SecondCallSendsNothing ==
    (tr.rep = 2 /\ tr.prev = "done" /\ Traded) => tr.calls = << >>

(***************************************************************************)
(* C2.  An exit is never recorded unless it was submitted: after a tick    *)
(* whose take-profit or trailing-stop sell raised, entry_price, add_count, *)
(* trail_active and last_exit_price are what they were before the attempt. *)
(***************************************************************************)
C2_FailedExitLeavesState ==
    (Traded /\ (Called("tp", FALSE) \/ Called("trail", FALSE)))
        => /\ state.entry_price = Adopted.entry_price
           /\ state.add_count = Adopted.add_count
           /\ state.trail_active = Adopted.trail_active
           /\ state.last_exit_price = Adopted.last_exit_price

(***************************************************************************)
(* C3.  An add is never recorded unless it was submitted: a tick whose add *)
(* order raised leaves add_count and last_add_price as they were before    *)
(* the add step, and a tick raises add_count or moves last_add_price past  *)
(* the add step only if its add call returned.                             *)
(***************************************************************************)
C3_AddRecordedOnlyIfSubmitted ==
    Traded =>
        /\ Called("add", FALSE) => /\ state.add_count = Adopted.add_count
                                   /\ state.last_add_price = Adopted.last_add_price
        /\ (state.add_count > Adopted.add_count
              \/ state.last_add_price # Adopted.last_add_price) => Called("add", TRUE)

\* the add order of the last tick raised
C3_Witness == Traded /\ Called("add", FALSE) /\ state.add_count = Adopted.add_count

(***************************************************************************)
(* C4.  Take-profit goes first: in a tick that manages an open position    *)
(* for which both the take-profit condition and the trailing-stop trigger  *)
(* hold, exactly one market sell is made, it is the take-profit sell, no   *)
(* trailing-stop sell is made, and the state ends FLAT.                    *)
(***************************************************************************)
BothExitsDue ==
    /\ Traded
    /\ tr.was.eth > 0
    /\ TakeProfitHit(Adopted, exit_rules(mkt.reg, mkt.atr, Adopted.entry_price), mkt.px)
    /\ Adopted.trail_active
    /\ 1000 * mkt.px <= 1000 * Or(Adopted.trail_anchor_price, 0)
                          - Or(Adopted.trail_dist_atr,
                               exit_rules(mkt.reg, mkt.atr, Adopted.entry_price).trail_dist)

C4_TakeProfitFirst ==
    BothExitsDue =>
        /\ Cardinality(MarketSells) = 1
        /\ \A i \in MarketSells : tr.calls[i].by = "tp"
        /\ ~Attempted("trail")
        /\ state.entry_price = Null
        /\ state.add_count = 0
        /\ ~state.trail_active

C4_Witness == BothExitsDue /\ Called("tp", TRUE)

(***************************************************************************)
(* C5.  The add ladder runs out: in a tick whose add step is evaluated     *)
(* with add_count >= len(stakes) - 1, no add order is made and add_count   *)
(* stays, however far the price has fallen.                                *)
(***************************************************************************)
AddStepEvaluated == Traded /\ tr.was.eth > 0 /\ ~Attempted("tp") /\ ~Attempted("trail")

C5_LadderExhausted ==
    (AddStepEvaluated /\ Adopted.add_count >= Len(TickStakes) - 1)
        => ~Attempted("add") /\ state.add_count = Adopted.add_count

\* the ladder is spent after an add, and the price is a full spacing lower
C5_Witness ==
    /\ AddStepEvaluated
    /\ Adopted.add_count >= 1
    /\ Adopted.add_count >= Len(TickStakes) - 1
    /\ 1000 * (Adopted.last_add_price - mkt.px) >= add_spacing_atr * mkt.atr

(***************************************************************************)
(* A falling market in a trend with no breakout: the runs in which a       *)
(* position is adopted and added to, level after level.                    *)
(***************************************************************************)
MaxLadderTicks == 7

LadderSnapshots == {<<p, 7, "TREND", FALSE>> : p \in {65, 72, 79, 86, 93, 100}}

LadderMarkets == {Market(x, Fresh) : x \in LadderSnapshots}

LadderOutages == {{}, {"add"}}

LadderTick == Tick(LadderMarkets, LadderOutages, MaxLadderTicks)

LadderNext == LadderTick \/ Fill \/ TimePasses

LadderSpec == Init /\ [][LadderNext]_vars

(***************************************************************************)
(* C6.  0 <= add_count <= max_adds at all times.                           *)
(***************************************************************************)
C6_AddCountWithinMaxAdds == 0 <= state.add_count /\ state.add_count <= max_adds

\* the whole ladder has been added
C6_Witness == state.add_count = max_adds /\ Called("add", TRUE)

(***************************************************************************)
(* C7.  Whenever trail_active is true, trail_anchor_price and              *)
(* trail_dist_atr are both set.                                            *)
(***************************************************************************)
C7_ArmedTrailHasAnchorAndDist ==
    state.trail_active => state.trail_anchor_price # Null /\ state.trail_dist_atr # Null

C7_Witness == state.trail_active /\ Traded /\ ~tr.pre.trail_active

(***************************************************************************)
(* C8.  bootstrap_state is monotonic: once "DONE", no step makes it        *)
(* anything else.                                                          *)
(***************************************************************************)
C8_DoneStaysDone ==
    [][state.bootstrap_state = "DONE" => state'.bootstrap_state = "DONE"]_vars

\* a tick that started with the bootstrap done and sold the whole position
C8_Witness ==
    /\ tr.pre.bootstrap_state = "DONE"
    /\ state.bootstrap_state = "DONE"
    /\ Called("tp", TRUE)
    /\ bal.eth = 0

(***************************************************************************)
(* C9.  At the start of every tick exactly one of {no position is held     *)
(* (the base balance is zero), entry_price is set} holds.  Stated where    *)
(* the next tick starts after a trading tick whose venue calls all         *)
(* returned.                                                               *)
(***************************************************************************)
C9_FlatOrEntryAtTickStart ==
    (Traded /\ AllOk(tr.calls)) => ((bal.eth = 0) # (state.entry_price # Null))

(***************************************************************************)
(* The bootstrap on its own: a fresh state, an allocation outside the      *)
(* target band for which the first tick sends a rebalancing order, one     *)
(* unchanging snapshot, a venue that answers every call, ticks for as long *)
(* as the bootstrap is pending, and the resting order filling completely.  *)
(***************************************************************************)
BootMarket == Market(<<86, 7, "TREND", FALSE>>, Fresh)

\* the first tick of the bootstrap sends an order
FirstOrderSent(b) ==
    reconcile_orders(desired_inventory_orders(b, BootMarket.px, BootMarket.atr,
                                              BootMarket.vwap),
                     << >>, price_precision, min_notional, Venue({}, b),
                     BootMarket.px) # << >>

BootBalances ==
    {b \in [eth : {0, 50, 100, 150, 200, 250, 300, 350, 400},
            usdt : {4000, 8000, 12000, 20000, 30000}] :
        ~AllocInBand(b, BootMarket.px) /\ FirstOrderSent(b)}

BootInit ==
    /\ state = DefaultState
    /\ bal \in BootBalances
    /\ open_orders = << >>
    /\ mkt = NoMarket
    /\ tr = Idle
    /\ ticks = 0

BootTick ==
    /\ state.bootstrap_state # "DONE"
    /\ Commit(on_tick(state, bal, open_orders, BootMarket, Venue({}, bal)), BootMarket)
    /\ UNCHANGED ticks

BootNext == BootTick \/ Fill

BootSpec == BootInit /\ [][BootNext]_vars /\ WF_vars(BootTick) /\ WF_vars(Fill)

(***************************************************************************)
(* C10.  Bootstrap convergence: from PENDING with the allocation outside   *)
(* the band, above or below, repeated ticks with the emitted order filled  *)
(* in full eventually set bootstrap_state to "DONE".                       *)
(***************************************************************************)
C10_BootstrapConverges == <>(state.bootstrap_state = "DONE")

(***************************************************************************)
(* The bootstrap over a grid of balances: allocations above, below, inside *)
(* and exactly on the edges of the target band (2.90 ETH / 18.060 USDT is  *)
(* 0.58 and 2.10 ETH / 24.940 USDT is 0.42 at price 8.6), three prices, a  *)
(* venue that answers every call, and resting orders that fill.            *)
(***************************************************************************)
MaxBandTicks == 2

BandBalances ==
    [eth : {0, 50, 100, 150, 200, 250, 300, 350, 400},
     usdt : {4000, 8000, 12000, 20000, 30000}]
    \cup {[eth |-> 290, usdt |-> 18060], [eth |-> 210, usdt |-> 24940]}

BandMarkets == {Market(<<p, 7, "TREND", FALSE>>, Fresh) : p \in {79, 86, 93}}

NoOutage == {{}}

BandInit ==
    /\ state = DefaultState
    /\ bal \in BandBalances
    /\ open_orders = << >>
    /\ mkt = NoMarket
    /\ tr = Idle
    /\ ticks = 0

BandTick == Tick(BandMarkets, NoOutage, MaxBandTicks)

BandNext == BandTick \/ Fill

BandSpec == BandInit /\ [][BandNext]_vars

\* the last step was a tick that ran the bootstrap (lines 509-516)
Bootstrapped == tr.outcome = "bootstrap"

\* line 510 of the last tick
BootDesired == desired_inventory_orders(tr.was, mkt.px, mkt.atr, mkt.vwap)

(***************************************************************************)
(* C11.  The bootstrap order is sized to reach the nearest band edge: with *)
(* its quantity filled at the current price, the allocation equals the     *)
(* upper edge after a sell and the lower edge after a buy (to within a     *)
(* thousandth of a base unit of quantity).                                 *)
(***************************************************************************)
C11_OrderReachesBandEdge ==
    (Bootstrapped /\ BootDesired # << >>) =>
        LET o     == BootDesired[1]
            after == IF o.side = "sell" THEN 10 * tr.was.eth - o.qty \div 1000
                                        ELSE 10 * tr.was.eth + o.qty \div 1000
            edge  == IF o.side = "sell" THEN target_alloc_pct + target_band
                                        ELSE target_alloc_pct - target_band
            gap   == 1000 * mkt.px * after - edge * 10 * Equity(tr.was, mkt.px)
        IN  -1000 * mkt.px <= gap /\ gap <= 1000 * mkt.px

(***************************************************************************)
(* C12.  While the bootstrap is pending, the desired set of a tick is one  *)
(* sell when the allocation is above the band, one buy when it is below,   *)
(* and empty when it is inside, the edges included.                        *)
(***************************************************************************)
C12_OneOrderOutsideBand ==
    Bootstrapped =>
        LET held == 1000 * (tr.was.eth * mkt.px)
            port == Equity(tr.was, mkt.px)
            hi   == (target_alloc_pct + target_band) * port
            lo   == (target_alloc_pct - target_band) * port
        IN  /\ held > hi => Len(BootDesired) = 1 /\ BootDesired[1].side = "sell"
            /\ held < lo => Len(BootDesired) = 1 /\ BootDesired[1].side = "buy"
            /\ (lo <= held /\ held <= hi) => BootDesired = << >>
            /\ \A i \in 1..Len(tr.calls) :
                  tr.calls[i].op = "create"
                      => Len(BootDesired) = 1 /\ tr.calls[i].side = BootDesired[1].side

\* a pending tick with the allocation exactly on the upper edge
C12_Witness ==
    /\ Bootstrapped
    /\ tr.was.eth > 0
    /\ 1000 * (tr.was.eth * mkt.px)
         = (target_alloc_pct + target_band) * Equity(tr.was, mkt.px)
    /\ tr.calls = << >>

(***************************************************************************)
(* C13.  A tick that starts with bootstrap_state PENDING runs no other     *)
(* trading logic: entry_price, last_add_price, add_count, trail_active,    *)
(* trail_anchor_price and last_exit_price are as before the tick, and      *)
(* every venue call is the reconciler's, on a plain limit order at         *)
(* VWAP -/+ 0.6 ATR (no market entry, no post-only grid order, no add,     *)
(* no take-profit or trailing-stop sell).                                  *)
(***************************************************************************)
C13_PendingTickOnlyBootstraps ==
    (tr.outcome # "idle" /\ tr.pre.bootstrap_state = "PENDING") =>
        /\ state.entry_price = tr.pre.entry_price
        /\ state.last_add_price = tr.pre.last_add_price
        /\ state.add_count = tr.pre.add_count
        /\ state.trail_active = tr.pre.trail_active
        /\ state.trail_anchor_price = tr.pre.trail_anchor_price
        /\ state.last_exit_price = tr.pre.last_exit_price
        /\ \A i \in 1..Len(tr.calls) :
              /\ tr.calls[i].by = "reconcile"
              /\ tr.calls[i].typ = "limit"
              /\ ~tr.calls[i].post_only
              /\ tr.calls[i].op = "create" =>
                    tr.calls[i].price
                        = RoundPrice(1000 * mkt.vwap
                                       + (IF tr.calls[i].side = "sell" THEN 600 ELSE -600)
                                           * mkt.atr,
                                     price_precision)

\* a pending tick on a TREND breakout with ETH held: the bootstrap order is
\* sent and neither the entry nor the adoption of the position happens
C13_Witness ==
    /\ Bootstrapped
    /\ state.bootstrap_state = "PENDING"
    /\ mkt.reg = "TREND" /\ mkt.breakout
    /\ tr.was.eth > 0
    /\ \E i \in 1..Len(tr.calls) : tr.calls[i].op = "create" /\ tr.calls[i].ok

(***************************************************************************)
(* A restart: Strategy.__init__ loads the StateStore from state.json       *)
(* (lines 87-93, 487).  The file is that of an earlier run with the        *)
(* bootstrap done: FLAT or with a position entered at 8.6, with or without *)
(* an exit recorded at 8.6, and with a realized daily loss of 0 or of      *)
(* 1.000 USDT (no line of the program writes daily_loss_realized, so a     *)
(* loss is in the state only when it is in the file).                      *)
(***************************************************************************)
MaxRestartTicks == 3

LoadedLosses == {0, 1000}

LoadedState(loss, entry_price, last_exit_price) ==
    [DefaultState EXCEPT !.bootstrap_state = "DONE",
                         !.daily_loss_realized = loss,
                         !.entry_price = entry_price,
                         !.last_add_price = entry_price,
                         !.last_exit_price = last_exit_price]

\* no 5m candle at all (c5.empty), the spread at the limit
NoCandles == <<Null, 15>>

\* fetch_order_book raised: load_orderbook_top answers (0.0, 0.0, 0.0)
BookDown == <<10, Null>>

\* fetch_ohlcv of the 1h candles raised or returned nothing: c1 is empty
NoHourly == [Market(<<0, 0, "RANGE", FALSE>>, Fresh) EXCEPT !.c1_empty = TRUE]

RestartMarkets ==
    {Market(<<p, 7, "TREND", b>>, Fresh) : p \in {79, 86, 93}, b \in BOOLEAN}
        \cup {Market(<<86, 7, "RANGE", FALSE>>, Fresh)}
        \cup {Market(x, r) : x \in {<<86, 7, "RANGE", FALSE>>, <<79, 7, "TREND", TRUE>>},
                             r \in {Stale, Wide, NoCandles, BookDown}}
        \cup {NoHourly}

RestartInit ==
    /\ \E loss \in LoadedLosses, e \in {Null, 86}, x \in {Null, 86} :
          /\ state = LoadedState(loss, e, x)
          /\ bal = IF e = Null THEN [eth |-> 0, usdt |-> 30000]
                               ELSE [eth |-> 150, usdt |-> 13000]
    /\ open_orders = << >>
    /\ mkt = NoMarket
    /\ tr = Idle
    /\ ticks = 0

RestartTick == Tick(RestartMarkets, NoOutage, MaxRestartTicks)

RestartNext == RestartTick \/ Fill

RestartSpec == RestartInit /\ [][RestartNext]_vars

\* the last step was a tick that sent an entry order (lines 521-534: the
\* market breakout buy or a grid order) or an add order (lines 594-600)
EntryOrAddSent ==
    \E i \in 1..Len(tr.calls) :
        \/ tr.calls[i].by = "reconcile" /\ tr.calls[i].op = "create"
        \/ tr.calls[i].by = "add"

(***************************************************************************)
(* C14.  Daily-loss guard: a tick in which daily_loss_realized exceeds     *)
(* 1.2% of equity sends no entry order (market breakout buy or grid        *)
(* order) and no add order.                                                *)
(***************************************************************************)
C14_DailyLossBlocksEntries ==
    (tr.outcome # "idle" /\ ~daily_loss_ok(tr.pre, Equity(tr.was, mkt.px)))
        => ~EntryOrAddSent

\* what lines 499-502 test, on the readings of the tick: the latest 5m
\* candle is more than 10 minutes behind the server time or there is none,
\* or the spread reading is above spread_max_bps
GuardFails == mkt.age = Null \/ mkt.age > 10 \/ mkt.spread > spread_max_bps

(***************************************************************************)
(* C15.  Freshness and spread guards: a tick whose latest 5m candle is     *)
(* older than 10 minutes (or that has no 5m candle), or whose spread       *)
(* exceeds spread_max_bps, sends no entry order and no add order.          *)
(***************************************************************************)
C15_GuardsBlockEntriesAndAdds ==
    (tr.outcome # "idle" /\ GuardFails) => ~EntryOrAddSent

\* a tick without 5m candles, FLAT on a TREND breakout: no order is sent
C15_Witness ==
    /\ tr.outcome = "stale"
    /\ mkt.age = Null
    /\ mkt.reg = "TREND" /\ mkt.breakout
    /\ tr.pre.bootstrap_state = "DONE"
    /\ tr.pre.entry_price = Null
    /\ tr.calls = << >>

(***************************************************************************)
(* C16.  Exits always run: in a tick where a guard fails while a position  *)
(* is open, the take-profit check is still evaluated, so with              *)
(* price >= entry_price + tp_dist the market sell is sent in that tick.    *)
(***************************************************************************)
C16_ExitsRunWhenGuardFails ==
    (/\ tr.outcome # "idle"
     /\ GuardFails
     /\ tr.pre.bootstrap_state = "DONE"
     /\ tr.was.eth > 0
     /\ tr.pre.entry_price # Null
     /\ TakeProfitHit(tr.pre, exit_rules(mkt.reg, mkt.atr, tr.pre.entry_price), mkt.px))
        => MarketSells # {}

\* the last step was a tick whose reconciler sent the market breakout buy
EntryBuySent ==
    \E i \in 1..Len(tr.calls) :
        /\ tr.calls[i].by = "reconcile" /\ tr.calls[i].op = "create"
        /\ tr.calls[i].side = "buy" /\ tr.calls[i].typ = "market"

(***************************************************************************)
(* C17.  Entry happens only from FLAT: a tick that starts with entry_price *)
(* set sends no entry buy, and its entry step leaves entry_price,          *)
(* last_add_price and add_count as they were.                              *)
(***************************************************************************)
C17_EntryOnlyFromFlat ==
    (Traded /\ tr.pre.entry_price # Null) =>
        /\ ~EntryBuySent
        /\ Entered.entry_price = tr.pre.entry_price
        /\ Entered.last_add_price = tr.pre.last_add_price
        /\ Entered.add_count = tr.pre.add_count

(***************************************************************************)
(* C18.  No-rebuy buffer: once an exit has recorded last_exit_price, a     *)
(* tick sends no entry order while                                         *)
(* price <= last_exit_price + no_rebuy_buffer_atr * ATR14.                 *)
(***************************************************************************)
C18_NoRebuyInsideBuffer ==
    (/\ Traded
     /\ tr.pre.last_exit_price # Null
     /\ 1000 * mkt.px <= 1000 * tr.pre.last_exit_price
                           + exit_rules(mkt.reg, mkt.atr, mkt.px).rebuy_buffer)
        => ~EntryBuySent

(***************************************************************************)
(* OrderLifecycle.reconcile_orders on its own: every live list and every   *)
(* desired list of up to two orders, duplicates included, with a venue     *)
(* that answers every call.  Prices 8.2 and 8.204 round to the same key at *)
(* one digit, and so do the quantities 0.30 and 0.34, which differ at two; *)
(* 0.1 ETH at 8.2 is below the minimum notional of 1; 0.06 ETH             *)
(* at 9.96 is below it as desired and reaches it once rounded.             *)
(***************************************************************************)
MaxReconciles == 1

ReconDesired ==
    {Order("buy", "unset", 82000, 300000, FALSE),
     Order("buy", "unset", 82040, 300000, TRUE),
     Order("sell", "unset", 90000, 300000, FALSE),
     Order("buy", "unset", 82000, 100000, FALSE),
     Order("buy", "unset", 82000, 340000, FALSE),
     Order("buy", "unset", 99600, 60000, FALSE),
     Order("buy", "market", Null, 20000, FALSE)}

ReconLive ==
    {[side |-> "buy", price |-> 82000, qty |-> 300000, old |-> FALSE],
     [side |-> "sell", price |-> 90000, qty |-> 300000, old |-> FALSE],
     [side |-> "sell", price |-> 95000, qty |-> 300000, old |-> FALSE]}

Lists(S) == {<< >>} \cup {<<a>> : a \in S} \cup {<<a, b>> : a \in S, b \in S}

DesiredLists == Lists(ReconDesired)

LiveLists == Lists(ReconLive)

ReconInit ==
    /\ state = [DefaultState EXCEPT !.bootstrap_state = "DONE"]
    /\ bal = [eth |-> 150, usdt |-> 13000]
    /\ open_orders \in LiveLists
    /\ mkt = Market(<<86, 7, "RANGE", FALSE>>, Fresh)
    /\ tr = Idle
    /\ ticks = 0

\* one call of reconcile_orders; tr keeps its two arguments
ReconcileCall ==
    /\ ticks < MaxReconciles
    /\ ticks' = ticks + 1
    /\ \E d \in DesiredLists :
          /\ tr' = [calls   |-> reconcile_orders(d, open_orders, price_precision,
                                                 min_notional, Venue({}, bal), mkt.px),
                    outcome |-> "reconciled", rep |-> 1, prev |-> tr.outcome,
                    pre |-> state, was |-> bal, desired |-> d, live |-> open_orders]
          /\ open_orders' = Book(open_orders, tr'.calls)
    /\ UNCHANGED <<state, bal, mkt>>

ReconNext == ReconcileCall \/ Fill

ReconSpec == ReconInit /\ [][ReconNext]_vars

Reconciled == tr.outcome = "reconciled"

\* the calls of the last reconcile_orders that cancel live order i
CancelsOf(i) == {j \in 1..Len(tr.calls) : tr.calls[j].op = "cancel" /\ tr.calls[j].ref = i}

\* the calls of the last reconcile_orders that place an order of key k
PlacesOf(k) ==
    {j \in 1..Len(tr.calls) : /\ tr.calls[j].op = "create"
                              /\ key(tr.calls[j], price_precision) = k}

(***************************************************************************)
(* C19.  Reconciler diff: for any desired list and any live list           *)
(* (duplicates allowed), all venue calls succeeding, reconcile_orders      *)
(* cancels every live order whose key is absent from the desired set,      *)
(* cancels no live order whose key is in it, and places exactly one order  *)
(* for every desired key absent from the live set that meets the minimum   *)
(* notional.                                                               *)
(***************************************************************************)
C19_ReconcilerDiff ==
    Reconciled =>
        LET dks == Keys(tr.desired, price_precision)
            oks == Keys(tr.live, price_precision)
        IN  /\ \A i \in 1..Len(oks) : oks[i] \notin Range(dks) => CancelsOf(i) # {}
            /\ \A i \in 1..Len(oks) : oks[i] \in Range(dks) => CancelsOf(i) = {}
            /\ \A i \in 1..Len(dks) :
                  (dks[i] \notin Range(oks)
                     /\ Sendable(tr.desired[i], price_precision, min_notional))
                      => Cardinality(PlacesOf(dks[i])) = 1

(***************************************************************************)
(* C20.  Minimum notional: reconcile_orders never submits a desired order  *)
(* whose price x quantity is below min_notional.  The price and quantity   *)
(* are those submitted; an order without a price is valued at the current  *)
(* price.                                                                  *)
(***************************************************************************)
C20_NoOrderBelowMinNotional ==
    \A i \in 1..Len(tr.calls) :
        (tr.calls[i].by = "reconcile" /\ tr.calls[i].op = "create") =>
            NotionalOk(IF tr.calls[i].price = Null THEN 1000 * mkt.px
                                                   ELSE tr.calls[i].price,
                       tr.calls[i].qty, price_precision, min_notional)

(***************************************************************************)
(* C21.  Unfilled-order timeout: every tick sends a cancel to each open    *)
(* order older than unfilled_timeout_sec, in whatever phase or guard       *)
(* outcome.  With every venue call of the tick answered, a cancelled order *)
(* leaves the book, so no order that was already old is open after a tick. *)
(***************************************************************************)
C21_OldOrdersCancelledEveryTick ==
    (tr.outcome # "idle" /\ AllOk(tr.calls)) =>
        \A i \in 1..Len(open_orders) : ~open_orders[i].old

\* the candles or the book could not be had: no 5m candle or a stale one,
\* no 1h candle, or no order book
DataUnavailable ==
    mkt.age = Null \/ mkt.age > 10 \/ mkt.c1_empty \/ mkt.spread = Null

(***************************************************************************)
(* C22.  DataUnavailable: when the candles are empty or stale or the order *)
(* book is unavailable, on_tick ends without raising, makes no venue call  *)
(* and leaves every StateStore field unchanged.                            *)
(***************************************************************************)
C22_DataUnavailableAborts ==
    (tr.outcome # "idle" /\ DataUnavailable) =>
        /\ tr.outcome # "raised"
        /\ tr.calls = << >>
        /\ state = tr.pre

\* monitor_position as the last tick ran it, with the venue that fails the
\* kinds of call in `down`
TickMonitor(down) ==
    monitor_position(Entered, mkt.reg, mkt.atr, mkt.px, TickStakes, tr.was.eth,
                     Venue(down, tr.was))

\* the last calls of the tick are those of mp, and the state is its state
EndsWith(mp) ==
    /\ state = mp.state
    /\ Len(tr.calls) >= Len(mp.calls)
    /\ SubSeq(tr.calls, Len(tr.calls) - Len(mp.calls) + 1, Len(tr.calls)) = mp.calls

(***************************************************************************)
(* C23.  Venue errors never abort the tick: when a cancel or a placement   *)
(* made by reconcile_orders or handle_timeouts fails, the tick still runs  *)
(* monitor_position (take-profit, trailing stop, adds) and ends with the   *)
(* state monitor_position left.                                            *)
(***************************************************************************)
C23_VenueErrorsDoNotAbort ==
    (/\ tr.pre.bootstrap_state = "DONE"
     /\ Called("reconcile", FALSE) \/ Called("timeout", FALSE))
        => /\ Traded
           /\ \E down \in Outages : EndsWith(TickMonitor(down))

\* a tick whose grid placements are refused and whose take-profit sell is
\* sent all the same
C23_Witness ==
    /\ Traded
    /\ Called("reconcile", FALSE)
    /\ Called("tp", TRUE)
    /\ state.entry_price = Null /\ state.last_exit_price = mkt.px

(***************************************************************************)
(* RiskSizer.compute_stakes on its own: equities from 10 to 80 quote       *)
(* units, prices from 7.2 to 20.0 and ATR14 from 0.2 to 1.7, which give    *)
(* the whole ladder, a clipped ladder, and no size at all (equity 80,      *)
(* price 20.0, ATR14 0.2: the first size alone is 40 against a cap of 24). *)
(***************************************************************************)
StakeEquities == {10000, 13000, 25900, 30000, 80000}

StakeMarkets ==
    {Market(<<p, a, "TREND", FALSE>>, Fresh) : p \in {72, 79, 86, 93, 100, 200},
                                                a \in {2, 7, 12, 17}}

StakeInit ==
    /\ state = [DefaultState EXCEPT !.bootstrap_state = "DONE"]
    /\ \E e \in StakeEquities : bal = [eth |-> 0, usdt |-> e]
    /\ open_orders = << >>
    /\ mkt \in StakeMarkets
    /\ tr = Idle
    /\ ticks = 0

\* line 519: stakes = RiskSizer.compute_stakes(equity, u_risk, px)
SizeStakes ==
    /\ tr.outcome = "idle"
    /\ tr' = [Idle EXCEPT !.outcome = "sized", !.was = bal]
               @@ [stakes |-> compute_stakes(Equity(bal, mkt.px),
                                             unit_risk(mkt.atr, mkt.px), mkt.px)]
    /\ UNCHANGED <<state, bal, open_orders, mkt, ticks>>

StakeNext == SizeStakes

StakeSpec == StakeInit /\ [][StakeNext]_vars

Sized == tr.outcome = "sized"

\* the sizes of line 396-400 for the equity and the market of the state
Decayed ==
    DecayedStakes(base_stake(Equity(bal, mkt.px), unit_risk(mkt.atr, mkt.px)))

(***************************************************************************)
(* C24.  The sequence compute_stakes returns has cumulative notional at    *)
(* most exposure_cap_notional_pct x equity and is a prefix, of length at   *)
(* most max_adds + 1, of the decayed size sequence: it stops before the    *)
(* first size that would breach the cap, and nothing after it is kept.     *)
(***************************************************************************)
C24_StakesArePrefixWithinCap ==
    Sized =>
        /\ Len(tr.stakes) <= max_adds + 1
        /\ tr.stakes = SubSeq(Decayed, 1, Len(tr.stakes))
        /\ SumNotional(tr.stakes, Len(tr.stakes), mkt.px)
              <= exposure_cap_notional_pct * Equity(bal, mkt.px) * 10
        /\ Len(tr.stakes) < max_adds + 1 =>
              SumNotional(Decayed, Len(tr.stakes) + 1, mkt.px)
                  > exposure_cap_notional_pct * Equity(bal, mkt.px) * 10

\* a ladder cut after its second size
C24_Witness ==
    /\ Sized
    /\ Len(tr.stakes) = 2
    /\ tr.stakes[2] < tr.stakes[1]

(***************************************************************************)
(* C25.  Callers index the stake sequence defensively: whatever the length *)
(* of stakes, the empty sequence included, and in both regimes, a tick     *)
(* that has its candles reads no index outside the sequence and completes  *)
(* without raising.                                                        *)
(***************************************************************************)
C25_TickNeverRaisesOnStakes ==
    ~mkt.c1_empty => tr.outcome # "raised"

(***************************************************************************)
(* StateStore.save (src/EthStrategy.py:95-97) step by step, with a crash   *)
(* of the process at any point.  open(STATE_PATH, "w") truncates           *)
(* state.json; json.dump writes the keys in sorted order; leaving the      *)
(* with block closes the file.  tr.file is the content of state.json: the  *)
(* first `upto` keys of the document of the state `doc`.  tr.pre is the    *)
(* state the file held before the save, `state` the one being saved.       *)
(***************************************************************************)
\* the keys of asdict(self), as sort_keys=True writes them
DocKeys ==
    << "add_count", "bootstrap_state", "daily_loss_realized", "entry_price",
       "last_add_price", "last_exit_price", "last_grid_anchor", "last_regime",
       "open_order_intent_hash", "trail_active", "trail_anchor_price",
       "trail_dist_atr" >>

\* state.json holding the whole document of s
Complete(s) == [doc |-> s, upto |-> Len(DocKeys)]

SavedStates ==
    {LoadedState(loss, e, x) : loss \in LoadedLosses, e \in {Null, 86}, x \in {Null, 86}}

SaveInit ==
    /\ state \in SavedStates
    /\ bal = [eth |-> 150, usdt |-> 13000]
    /\ open_orders = << >>
    /\ mkt = NoMarket
    /\ \E old \in SavedStates : tr = [Idle EXCEPT !.pre = old] @@ [file |-> Complete(old)]
    /\ ticks = 0

\* line 96: open(STATE_PATH, "w") leaves an empty file
SaveOpen ==
    /\ tr.outcome = "idle"
    /\ tr' = [tr EXCEPT !.outcome = "open", !.file = [doc |-> state, upto |-> 0]]
    /\ UNCHANGED <<state, bal, open_orders, mkt, ticks>>

\* line 97: json.dump writes the next keys of the document
SaveWrite ==
    /\ tr.outcome = "open"
    /\ tr.file.upto < Len(DocKeys)
    /\ \E k \in (tr.file.upto + 1)..Len(DocKeys) : tr' = [tr EXCEPT !.file.upto = k]
    /\ UNCHANGED <<state, bal, open_orders, mkt, ticks>>

\* the end of the with block
SaveClose ==
    /\ tr.outcome = "open"
    /\ tr.file.upto = Len(DocKeys)
    /\ tr' = [tr EXCEPT !.outcome = "saved"]
    /\ UNCHANGED <<state, bal, open_orders, mkt, ticks>>

\* the process dies during the save; the file stays as it is
Crash ==
    /\ tr.outcome = "open"
    /\ tr' = [tr EXCEPT !.outcome = "crashed"]
    /\ UNCHANGED <<state, bal, open_orders, mkt, ticks>>

SaveNext == SaveOpen \/ SaveWrite \/ SaveClose \/ Crash

SaveSpec == SaveInit /\ [][SaveNext]_vars

(***************************************************************************)
(* C26.  Persisted-state writes are atomic: after a crash at any point of  *)
(* StateStore.save, state.json holds the complete previous state or the    *)
(* complete new state, never an empty or half-written document.            *)
(***************************************************************************)
C26_SaveIsAtomic ==
    tr.outcome = "crashed" => tr.file \in {Complete(tr.pre), Complete(state)}

(***************************************************************************)
(* utils.grid.symmetric_grid (src/utils/grid.py:6-8) on its own, over      *)
(* anchors, steps (negative and zero included) and level counts.           *)
(***************************************************************************)
MaxLevels == 3

GridAnchors == {0, 50, 86, 100, 101, 2000, -100}

GridSteps == {-10, 0, 1, 10}

\* symmetric_grid with range(-levels, levels): the top level is missing
symmetric_grid_half_open(anchor, step, levels) ==
    [k \in 1..(2 * levels) |-> anchor + step * (k - levels - 1)]

\* [anchor + step * i for i in range(-levels, levels + 1)]
symmetric_grid(anchor, step, levels) ==
    [k \in 1..(2 * levels + 1) |-> anchor + step * (k - levels - 1)]

GridInit ==
    /\ state = DefaultState
    /\ bal = [eth |-> 0, usdt |-> 0]
    /\ open_orders = << >>
    /\ mkt = NoMarket
    /\ \E a \in GridAnchors, s \in GridSteps, n \in 0..MaxLevels :
          tr = Idle @@ [anchor |-> a, step |-> s, levels |-> n]
    /\ ticks = 0

BuildGrid ==
    /\ tr.outcome = "idle"
    /\ tr' = [tr EXCEPT !.outcome = "gridded"]
               @@ [grid |-> symmetric_grid(tr.anchor, tr.step, tr.levels)]
    /\ UNCHANGED <<state, bal, open_orders, mkt, ticks>>

GridNext == BuildGrid

GridSpec == GridInit /\ [][GridNext]_vars

Gridded == tr.outcome = "gridded"

\* odd length 2 * levels + 1, element k is anchor + step * i for the k-th i of
\* -levels..levels, the middle element is anchor, mirrored elements sum to
\* 2 * anchor
GridShape ==
    /\ Len(tr.grid) = 2 * tr.levels + 1
    /\ \A i \in (-tr.levels)..tr.levels :
          tr.grid[i + tr.levels + 1] = tr.anchor + tr.step * i
    /\ tr.grid[tr.levels + 1] = tr.anchor
    /\ \A k \in 1..Len(tr.grid) :
          tr.grid[k] + tr.grid[Len(tr.grid) + 1 - k] = 2 * tr.anchor

(***************************************************************************)
(* C27, as stated.  For every anchor, step and levels >= 0 symmetric_grid  *)
(* returns the values anchor + step * i, i = -levels..levels, in ascending *)
(* order, with odd length, anchor in the middle and mirrored sums          *)
(* 2 * anchor.                                                             *)
(***************************************************************************)
C27_GridAscendingForEveryStep ==
    Gridded =>
        /\ GridShape
        /\ \A k \in 1..(Len(tr.grid) - 1) : tr.grid[k] <= tr.grid[k + 1]

(***************************************************************************)
(* C27, amended.  symmetric_grid returns the values anchor + step * i in   *)
(* the order of i = -levels..levels, with odd length, anchor in the middle *)
(* and mirrored sums 2 * anchor; the values ascend when step > 0, are all  *)
(* equal when step = 0 and descend when step < 0.                          *)
(***************************************************************************)
C27_GridOrderedByStepSign ==
    Gridded =>
        /\ GridShape
        /\ \A k \in 1..(Len(tr.grid) - 1) :
              /\ tr.step > 0 => tr.grid[k] < tr.grid[k + 1]
              /\ tr.step = 0 => tr.grid[k] = tr.grid[k + 1]
              /\ tr.step < 0 => tr.grid[k] > tr.grid[k + 1]

\* anchor 100, step -10, levels 2: [120, 110, 100, 90, 80]
C27_Witness ==
    /\ Gridded
    /\ tr.anchor = 100 /\ tr.step = -10 /\ tr.levels = 2
    /\ tr.grid = <<120, 110, 100, 90, 80>>

\* what the take-profit block of monitor_position leaves behind (lines
\* 557-565): one market sell of the whole held quantity, last_exit_price
\* recorded once the sell was submitted, the state FLAT, and no add order
TakeProfitTaken ==
    /\ Cardinality(MarketSells) = 1
    /\ \A i \in MarketSells :
          /\ tr.calls[i].by = "tp"
          /\ tr.calls[i].qty = RoundQty(ToQty(tr.was.eth), qty_precision)
          /\ tr.calls[i].ok => state.last_exit_price = mkt.px
    /\ state.entry_price = Null
    /\ state.add_count = 0
    /\ ~state.trail_active
    /\ ~Attempted("add")

(***************************************************************************)
(* C28.  Take-profit effect: in any tick where monitor_position finds a    *)
(* position held and price >= entry_price + tp_dist (entry_price as the    *)
(* entry step and the adoption left it), one market sell for the full held *)
(* quantity is sent, last_exit_price = price is recorded once the sell was *)
(* submitted, the state ends FLAT (entry_price null, add_count 0,          *)
(* trail_active false) and no add order is sent.                           *)
(***************************************************************************)
C28_TakeProfitEffect ==
    (/\ Traded
     /\ tr.was.eth > 0
     /\ TakeProfitHit(Adopted, exit_rules(mkt.reg, mkt.atr, Adopted.entry_price), mkt.px))
        => TakeProfitTaken

\* a take-profit on a position tracked since an earlier tick, sell submitted
C28_Witness ==
    /\ Traded
    /\ tr.pre.entry_price # Null
    /\ tr.was.eth > 0
    /\ TakeProfitHit(tr.pre, exit_rules(mkt.reg, mkt.atr, tr.pre.entry_price), mkt.px)
    /\ Called("tp", TRUE)
    /\ state.last_exit_price = mkt.px
    /\ bal.eth = 0

(***************************************************************************)
(* A trailing position: 1.50 ETH adopted at 7.2 with ATR14 1.7, so that    *)
(* the trail arms from 8.9 on while the take-profit level is 9.41; the     *)
(* price then moves among 8.9, 9.1 and 9.3 and falls to 7.9 or 7.2.        *)
(***************************************************************************)
MaxTrailTicks == 6

TrailMarkets ==
    {Market(<<p, 17, "TREND", FALSE>>, Fresh) : p \in {72, 79, 89, 91, 93}}

TrailOutages == {{}, {"sell", "add"}}

TrailInit ==
    /\ state = DefaultState
    /\ bal = [eth |-> 150, usdt |-> 13000]
    /\ open_orders = << >>
    /\ mkt = NoMarket
    /\ tr = Idle
    /\ ticks = 0

TrailTick == Tick(TrailMarkets, TrailOutages, MaxTrailTicks)

TrailNext == TrailTick

TrailSpec == TrailInit /\ [][TrailNext]_vars

\* the last tick ran monitor_position on a held position whose trail was
\* armed before the tick, and the take-profit did not fire
Trailing ==
    /\ Traded
    /\ tr.was.eth > 0
    /\ Adopted.trail_active
    /\ ~TakeProfitHit(Adopted, exit_rules(mkt.reg, mkt.atr, Adopted.entry_price), mkt.px)

\* max(trail_anchor_price, price) of lines 573-574
Ratcheted == Max(Or(tr.pre.trail_anchor_price, 0), mkt.px)

\* price <= stop_price of lines 575-576, after the ratchet
StopHit ==
    1000 * mkt.px <= 1000 * Ratcheted
                       - Or(tr.pre.trail_dist_atr,
                            exit_rules(mkt.reg, mkt.atr, Adopted.entry_price).trail_dist)

(***************************************************************************)
(* C29.  Trailing-stop ratchet: while the trail stays active,              *)
(* trail_anchor_price never decreases from one tick to the next and after  *)
(* each tick is the maximum of its previous value and the tick's price; a  *)
(* market sell for the full quantity is sent exactly when                  *)
(* price <= trail_anchor_price - trail_dist after the ratchet.             *)
(***************************************************************************)
C29_TrailingRatchet ==
    Trailing =>
        IF StopHit
        THEN /\ Cardinality(MarketSells) = 1
             /\ \A i \in MarketSells :
                   /\ tr.calls[i].by = "trail"
                   /\ tr.calls[i].qty = RoundQty(ToQty(tr.was.eth), qty_precision)
             /\ ~state.trail_active
        ELSE /\ MarketSells = {}
             /\ state.trail_active
             /\ state.trail_anchor_price = Ratcheted
             /\ state.trail_anchor_price >= tr.pre.trail_anchor_price

\* the anchor moves up from 8.9 or 9.1 with the price and no sell is sent
C29_Witness ==
    /\ Trailing
    /\ tr.pre.trail_anchor_price # Null
    /\ mkt.px > tr.pre.trail_anchor_price
    /\ state.trail_active
    /\ state.trail_anchor_price = mkt.px
    /\ tr.calls = << >>

\* the order as the venue tells orders apart: side, price at the price
\* precision, quantity at the quantity precision
VenueKey(o) ==
    << o.side,
       IF o.price = Null THEN 0 ELSE RoundPrice(o.price, price_precision),
       RoundQty(o.qty, qty_precision) >>

(***************************************************************************)
(* C30.  The reconciler's order key rounds the quantity to the venue's     *)
(* quantity precision and the price to the price precision: two orders of  *)
(* the same side and price whose quantities differ at quantity precision   *)
(* have different keys, and a live order is never taken for a desired      *)
(* order of another quantity (it is cancelled when reconcile_orders is     *)
(* called as on_tick calls it).                                            *)
(***************************************************************************)
C30_KeyRoundsQuantityToQtyPrecision ==
    Reconciled =>
        \A i \in 1..Len(tr.live) :
            /\ \A j \in 1..Len(tr.desired) :
                  VenueKey(tr.live[i]) # VenueKey(tr.desired[j])
                      => key(tr.live[i], price_precision)
                             # key(tr.desired[j], price_precision)
            /\ (\A j \in 1..Len(tr.desired) :
                    VenueKey(tr.live[i]) # VenueKey(tr.desired[j]))
                  => CancelsOf(i) # {}

\* the last tick placed an add order, which now rests last in the book and
\* has not reached its unfilled timeout
RestingAdd ==
    /\ Traded
    /\ Called("add", TRUE)
    /\ state.add_count = Adopted.add_count + 1
    /\ Len(open_orders) > 0
    /\ open_orders[Len(open_orders)].side = "buy"
    /\ ~open_orders[Len(open_orders)].old

(***************************************************************************)
(* C31.  A resting add order placed by monitor_position in one tick is not *)
(* cancelled by reconcile_orders in a later tick merely because it is not  *)
(* in that tick's desired set: before its unfilled timeout, an unfilled    *)
(* add order for which add_count was incremented stays live.               *)
(***************************************************************************)
C31_RestingAddStaysLive ==
    [][(RestingAdd /\ ticks' = ticks + 1)
          => \A j \in 1..Len(tr'.calls) :
                 ~(/\ tr'.calls[j].op = "cancel"
                   /\ tr'.calls[j].by = "reconcile"
                   /\ tr'.calls[j].ref = Len(open_orders))]_vars

(***************************************************************************)
(* C32.  Within one tick no order id is sent a cancel more than once: an   *)
(* open order that reconcile_orders cancels because it is not desired is   *)
(* not cancelled again by handle_timeouts in the same tick.                *)
(***************************************************************************)
C32_OneCancelPerOrderPerTick ==
    \A i, j \in 1..Len(tr.calls) :
        (/\ tr.calls[i].op = "cancel" /\ tr.calls[j].op = "cancel"
         /\ tr.calls[i].ref = tr.calls[j].ref) => i = j

(***************************************************************************)
(* A position that is bought, added to and sold again by a grid order: the *)
(* bot restarts flat with 30.000 USDT, enters on a breakout at 7.9, and    *)
(* the market then ranges and falls.                                       *)
(***************************************************************************)
MaxUnwindTicks == 5

UnwindMarkets ==
    {Market(x, Fresh) : x \in {<<79, 7, "TREND", TRUE>>, <<79, 7, "RANGE", FALSE>>,
                               <<72, 7, "RANGE", FALSE>>, <<65, 7, "TREND", FALSE>>}}

UnwindInit ==
    /\ state = LoadedState(0, Null, Null)
    /\ bal = [eth |-> 0, usdt |-> 30000]
    /\ open_orders = << >>
    /\ mkt = NoMarket
    /\ tr = Idle
    /\ ticks = 0

UnwindTick == Tick(UnwindMarkets, NoOutage, MaxUnwindTicks)

UnwindNext == UnwindTick \/ Fill

UnwindSpec == UnwindInit /\ [][UnwindNext]_vars

(***************************************************************************)
(* C33.  Whenever the state is FLAT at the end of a tick (entry_price      *)
(* null), add_count = 0 and trail_active is false, whichever path cleared  *)
(* the position: take-profit, trailing stop, or held quantity found to be  *)
(* zero.                                                                   *)
(***************************************************************************)
C33_FlatHasNoAddsNoTrail ==
    state.entry_price = Null => state.add_count = 0 /\ ~state.trail_active

(***************************************************************************)
(* C34.  Every order on_tick submits to the venue has quantity greater     *)
(* than zero; in particular when compute_stakes returns an empty sequence  *)
(* (or base size 0) in TREND with a breakout signal, no buy is submitted   *)
(* and no entry state is recorded.                                         *)
(***************************************************************************)
C34_NoEmptyOrderNoEmptyEntry ==
    /\ \A j \in 1..Len(tr.calls) : tr.calls[j].op = "create" => tr.calls[j].qty > 0
    /\ (/\ Traded /\ mkt.reg = "TREND" /\ mkt.breakout
        /\ (TickStakes = << >> \/ TickStakes[1] = 0))
          => /\ \A j \in 1..Len(tr.calls) :
                    tr.calls[j].op = "create" => tr.calls[j].side # "buy"
             /\ Entered = tr.pre

=============================================================================
